---- MODULE Spec2Model ----
(***************************************************************************)
(* A model of the QOI encoder of qoi-fast (src/src/encode.rs): the         *)
(* Encoder constructors, the three encode entry points and the per-pixel   *)
(* loop of encode_impl, together with the pixel, header, byte-sink and     *)
(* decoder pieces the encoder is built on.                                 *)
(***************************************************************************)
EXTENDS Integers, Sequences, FiniteSets, TLC

(***************************************************************************)
(* Bounds of the model.                                                    *)
(***************************************************************************)
\* longest image assembled freely from palette chunks
MaxFree == 3
\* longest palette image handed to Encoder::new_raw
MaxRawFree == 2
\* width and height of the plain inputs are drawn from 0..MaxDim
MaxDim == 2
\* the plain inputs have 0..MaxLen bytes
MaxLen == 16
\* extra bytes of stride past width * bytes-per-pixel
MaxPad == 1
\* uniform images have about RunMax * k pixels, k in 1..MaxBlocks
MaxBlocks == 2

(***************************************************************************)
(* Constants of the format (crate::consts).                                *)
(***************************************************************************)
QOI_OP_INDEX == 0
QOI_OP_DIFF == 64
QOI_OP_LUMA == 128
QOI_OP_RUN == 192
QOI_OP_RGB == 254
QOI_OP_RGBA == 255
QOI_HEADER_SIZE == 14
QOI_PADDING_SIZE == 8
QOI_PADDING == <<0, 0, 0, 0, 0, 0, 0, 1>>
QOI_MAGIC == <<113, 111, 105, 102>>
\* the run length at which encode_impl flushes a run
RunMax == 62

Byte == 0..255
Wrap(v) == v % 256

(***************************************************************************)
(* Pixels (crate::pixel).  A pixel is <<r, g, b, a>>; a Pixel<3> keeps a   *)
(* at 0xFF.                                                                *)
(***************************************************************************)
Pixel_new == <<0, 0, 0, 0>>
with_a(px, a) == <<px[1], px[2], px[3], a>>
as_rgba(N, px, a) == IF N = 4 THEN px ELSE <<px[1], px[2], px[3], a>>
hash_index(px) == (px[1] * 3 + px[2] * 5 + px[3] * 7 + px[4] * 11) % 64
update_rgb(px, r, g, b) == <<r, g, b, px[4]>>
update_rgba(N, px, r, g, b, a) == IF N = 4 THEN <<r, g, b, a>> ELSE <<r, g, b, px[4]>>
\* Pixel::read: the first N bytes of the chunk become the pixel's channels
read(N, px, c) == IF N = 4 THEN <<c[1], c[2], c[3], c[4]>> ELSE <<c[1], c[2], c[3], px[4]>>

\* a signed view of an 8-bit difference, in -128..127
Signed(d) == IF d >= 128 THEN d - 256 ELSE d

\* Pixel::encode_into: the opcode bytes for px given the previous pixel
encode_into(N, px, px_prev) ==
    LET dr == Signed(Wrap(px[1] - px_prev[1] + 256))
        dg == Signed(Wrap(px[2] - px_prev[2] + 256))
        db == Signed(Wrap(px[3] - px_prev[3] + 256))
        da == Wrap(px[4] - px_prev[4] + 256)
    IN  IF N = 4 /\ da # 0
          THEN <<QOI_OP_RGBA, px[1], px[2], px[3], px[4]>>
        ELSE IF dr \in -2..1 /\ dg \in -2..1 /\ db \in -2..1
          THEN <<QOI_OP_DIFF + (dr + 2) * 16 + (dg + 2) * 4 + (db + 2)>>
        ELSE IF dg \in -32..31 /\ Signed(Wrap(dr - dg + 256)) \in -8..7
                /\ Signed(Wrap(db - dg + 256)) \in -8..7
          THEN <<QOI_OP_LUMA + (dg + 32),
                 (Signed(Wrap(dr - dg + 256)) + 8) * 16 + (Signed(Wrap(db - dg + 256)) + 8)>>
        ELSE IF N = 4
          THEN <<QOI_OP_RGBA, px[1], px[2], px[3], px[4]>>
        ELSE <<QOI_OP_RGB, px[1], px[2], px[3]>>

(***************************************************************************)
(* Raw layouts (crate::types).                                             *)
(***************************************************************************)
RawChannels == {"Rgb", "Bgr", "Rgba", "Argb", "Bgra", "Abgr", "Rgbx", "Xrgb", "Bgrx", "Xbgr"}
bytes_per_pixel(rc) == IF rc \in {"Rgb", "Bgr"} THEN 3 ELSE 4
\* Channels::from(RawChannels): the channel count stored in the header
channels_of(rc) == IF rc \in {"Rgb", "Bgr", "Rgbx", "Xrgb", "Bgrx", "Xbgr"} THEN 3 ELSE 4
\* RawChannels::from(Channels)
raw_of(channels) == IF channels = 3 THEN "Rgb" ELSE "Rgba"

(***************************************************************************)
(* Errors and results.                                                     *)
(***************************************************************************)
NoResult == [kind |-> "none"]
Ok(n) == [kind |-> "Ok", n |-> n]
Err(e) == [kind |-> "Err", err |-> e]
EmptyImage == [kind |-> "EmptyImage"]
InvalidChannels(c) == [kind |-> "InvalidChannels", channels |-> c]
InvalidImageLength(size, w, h) ==
    [kind |-> "InvalidImageLength", size |-> size, width |-> w, height |-> h]
InvalidStride(stride) == [kind |-> "InvalidStride", stride |-> stride]
OutputBufferTooSmall(size, required) ==
    [kind |-> "OutputBufferTooSmall", size |-> size, required |-> required]
IoError == [kind |-> "IoError"]

(***************************************************************************)
(* Header (crate::header).                                                 *)
(***************************************************************************)
SRGB == 0
LINEAR == 1
ColorSpaces == {SRGB, LINEAR}
Header(w, h, channels, colorspace) ==
    [width |-> w, height |-> h, channels |-> channels, colorspace |-> colorspace]
\* Header::try_new
try_new(w, h, channels, colorspace) ==
    IF w * h = 0 THEN Err(EmptyImage) ELSE [kind |-> "Ok", header |-> Header(w, h, channels, colorspace)]
n_pixels(header) == header.width * header.height
\* big-endian 32-bit field
BE32(v) == <<(v \div 16777216) % 256, (v \div 65536) % 256, (v \div 256) % 256, v % 256>>
\* Header::encode: the 14 header bytes
header_encode(header) ==
    QOI_MAGIC \o BE32(header.width) \o BE32(header.height)
        \o <<header.channels, header.colorspace>>
\* Channels::try_from(u8)
channels_try_from(c) == IF c \in {3, 4} THEN Ok(c) ELSE Err(InvalidChannels(c))

\* (mutant) the bound without the opcode byte of each pixel
encode_max_len_no_tags(width, height, channels) ==
    QOI_HEADER_SIZE + width * height * channels + QOI_PADDING_SIZE
\* encode_max_len(width, height, channels)
encode_max_len(width, height, channels) ==
    LET n == width * height
    IN  QOI_HEADER_SIZE + n * channels + n + QOI_PADDING_SIZE

(***************************************************************************)
(* The inputs the constructors are called with.                            *)
(***************************************************************************)
Palette ==
    { <<0, 0, 0, 255>>, <<0, 0, 0, 0>>, <<1, 2, 3, 4>>, <<1, 255, 0, 255>>, <<128, 0, 77, 255>> }
\* the chunks of chs, cut to R bytes each, one after the other
Flatten(chs, R) == [j \in 1..(Len(chs) * R) |-> chs[((j - 1) \div R) + 1][((j - 1) % R) + 1]]
UniformData(c, R, k) == [j \in 1..(k * R) |-> c[((j - 1) % R) + 1]]
\* the bytes 0, 1, 2, ... of the repository's tests (arr3, arr4)
PlainData(n) == [j \in 1..n |-> (j - 1) % 256]
LongLens == { RunMax * k + d : k \in 1..MaxBlocks, d \in {-1, 0, 1} }
PaletteSeqs == UNION { [1..k -> Palette] : k \in 1..MaxFree }
\* images of palette pixels, with the dimensions that fit them
RichInputs ==
    { <<Flatten(chs, R), w, Len(chs) \div w>> :
        <<chs, R, w>> \in { t \in PaletteSeqs \X {3, 4} \X (1..MaxFree) :
                              t[3] <= Len(t[1]) /\ Len(t[1]) % t[3] = 0 } }
\* data of every length up to MaxLen, with every width and height up to MaxDim
PlainInputs == { <<PlainData(n), w, h>> : n \in 0..MaxLen, w \in 0..MaxDim, h \in 0..MaxDim }
\* long uniform images, as one row or one column, and as a single pixel
LongInputs ==
    UNION { { <<UniformData(c, R, k), k, 1>>, <<UniformData(c, R, k), 1, k>>,
              <<UniformData(c, R, k), 1, 1>> } :
            <<c, R, k>> \in Palette \X {3, 4} \X LongLens }
NewInputs == RichInputs \cup PlainInputs \cup LongInputs
RawInputs == { inp \in RichInputs : inp[2] * inp[3] <= MaxRawFree } \cup PlainInputs

(***************************************************************************)
(* State.                                                                  *)
(***************************************************************************)
VARIABLES
    pc,             \* "start", "ready", "loop", "done", "failed"
    ctor,           \* the constructor called: "none", "new", "new_raw"
    args,           \* what it was called with: size of data, width, height, stride, layout
    enc,            \* the Encoder: data, stride, raw_channels, header
    result,         \* what the last call returned
    sink,           \* "none", "buf", "vec", "stream"
    buf,            \* the caller's buffer (or what the stream has received)
    limit,          \* stream only: bytes the writer still accepts
    written,        \* bytes encode_impl has written through its Writer
    index, px_prev, hash_prev, run, px, index_allowed, i   \* locals of encode_impl

encVars == <<enc>>
sinkVars == <<sink, buf, limit, written>>
implVars == <<index, px_prev, hash_prev, run, px, index_allowed, i>>
vars == <<pc, ctor, args, enc, result, sink, buf, limit, written,
          index, px_prev, hash_prev, run, px, index_allowed, i>>

NoArgs == [size |-> 0, width |-> 0, height |-> 0, stride |-> 0, raw_channels |-> "none"]
Args(size, w, h, stride, rc) ==
    [size |-> size, width |-> w, height |-> h, stride |-> stride, raw_channels |-> rc]
NoEncoder == [data |-> <<>>, stride |-> 0, raw_channels |-> "Rgba",
              header |-> Header(0, 0, 4, SRGB)]
Encoder(data, stride, raw_channels, header) ==
    [data |-> data, stride |-> stride, raw_channels |-> raw_channels, header |-> header]

IdleImpl ==
    /\ index = [s \in 0..63 |-> Pixel_new]
    /\ px_prev = Pixel_new
    /\ hash_prev = 0
    /\ run = 0
    /\ px = Pixel_new
    /\ index_allowed = FALSE
    /\ i = 0

Init ==
    /\ pc = "start"
    /\ ctor = "none"
    /\ args = NoArgs
    /\ enc = NoEncoder
    /\ result = NoResult
    /\ sink = "none"
    /\ buf = <<>>
    /\ limit = 0
    /\ written = 0
    /\ IdleImpl

(***************************************************************************)
(* Encoder::new and Encoder::new_raw.                                      *)
(***************************************************************************)
Min(a, b) == IF a < b THEN a ELSE b

\* (mutant) Encoder::new casting n_channels to u8 without capping it at 0xff
Encoder_new_uncapped(data, width, height) ==
    LET h0 == try_new(width, height, 4, SRGB)
        size == Len(data)
    IN  IF h0.kind = "Err" THEN h0
        ELSE LET n_channels == size \div n_pixels(h0.header)
             IN  IF n_pixels(h0.header) * n_channels # size
                   THEN Err(InvalidImageLength(size, width, height))
                 ELSE LET ch == channels_try_from(n_channels % 256)
                      IN  IF ch.kind = "Err" THEN ch
                          ELSE [kind |-> "Ok",
                                enc |-> Encoder(data,
                                                width * bytes_per_pixel(raw_of(ch.n)),
                                                raw_of(ch.n),
                                                Header(width, height, ch.n, SRGB))]

\* Encoder::new: the value returned for (data, width, height)
Encoder_new(data, width, height) ==
    LET h0 == try_new(width, height, 4, SRGB)
        size == Len(data)
    IN  IF h0.kind = "Err" THEN h0
        ELSE LET n_channels == size \div n_pixels(h0.header)
             IN  IF n_pixels(h0.header) * n_channels # size
                   THEN Err(InvalidImageLength(size, width, height))
                 ELSE LET ch == channels_try_from(Min(n_channels, 255))
                      IN  IF ch.kind = "Err" THEN ch
                          ELSE [kind |-> "Ok",
                                enc |-> Encoder(data,
                                                width * bytes_per_pixel(raw_of(ch.n)),
                                                raw_of(ch.n),
                                                Header(width, height, ch.n, SRGB))]

\* Encoder::new_raw: the value returned for (data, width, height, stride, raw_channels)
Encoder_new_raw(data, width, height, stride, raw_channels) ==
    LET h0 == try_new(width, height, channels_of(raw_channels), SRGB)
        size == Len(data)
    IN  IF h0.kind = "Err" THEN h0
        ELSE IF stride < width * bytes_per_pixel(raw_channels)
          THEN Err(InvalidStride(stride))
        ELSE IF stride * (height - 1) + width * bytes_per_pixel(raw_channels) < size
          THEN Err(InvalidImageLength(size, width, height))
        ELSE [kind |-> "Ok", enc |-> Encoder(data, stride, raw_channels, h0.header)]

Construct(c, a, r) ==
    /\ pc = "start"
    /\ ctor' = c
    /\ args' = a
    /\ IF r.kind = "Ok"
         THEN /\ pc' = "ready"
              /\ enc' = r.enc
              /\ result' = NoResult
         ELSE /\ pc' = "failed"
              /\ enc' = NoEncoder
              /\ result' = r
    /\ UNCHANGED <<sinkVars, implVars>>

New ==
    /\ pc = "start"
    /\ \E inp \in NewInputs : Construct("new", Args(Len(inp[1]), inp[2], inp[3], 0, "none"),
                                       Encoder_new(inp[1], inp[2], inp[3]))

Strides(width, rc) ==
    { s \in (width * bytes_per_pixel(rc) - 1)..(width * bytes_per_pixel(rc) + MaxPad) : s >= 0 }

NewRaw ==
    /\ pc = "start"
    /\ \E inp \in RawInputs : \E rc \in RawChannels :
          \E stride \in Strides(inp[2], rc) :
              Construct("new_raw", Args(Len(inp[1]), inp[2], inp[3], stride, rc),
                        Encoder_new_raw(inp[1], inp[2], inp[3], stride, rc))

\* (mutant) the header rebuilt with the default channel count
with_colorspace_default_channels(e, colorspace) ==
    [e EXCEPT !.header = Header(e.header.width, e.header.height, 4, colorspace)]
\* Encoder::with_colorspace
with_colorspace(e, colorspace) ==
    [e EXCEPT !.header = [e.header EXCEPT !.colorspace = colorspace]]

WithColorspace ==
    /\ pc = "ready"
    /\ \E cs \in ColorSpaces : enc' = with_colorspace(enc, cs)
    /\ UNCHANGED <<pc, ctor, args, result, sinkVars, implVars>>

(***************************************************************************)
(* Byte sinks (crate::utils): BytesMut over the caller's slice, and        *)
(* GenericWriter over a std::io::Write.                                    *)
(***************************************************************************)
Unlimited == -1
Take(bytes, n) == SubSeq(bytes, 1, Min(n, Len(bytes)))
\* bytes put into b from position pos + 1 on
Overwrite(b, pos, bytes) ==
    [j \in 1..Len(b) |-> IF j > pos /\ j <= pos + Len(bytes) THEN bytes[j - pos] ELSE b[j]]
\* a sink is [kind, buf, limit, written, err]; err is NoResult until a write fails
Sink(kind, b, lim, wr, e) == [kind |-> kind, buf |-> b, limit |-> lim, written |-> wr, err |-> e]
\* BytesMut::write_one / write_many
BytesMut_write(s, bytes) ==
    LET remaining == Len(s.buf) - QOI_HEADER_SIZE - s.written
    IN  IF Len(bytes) > remaining
          THEN [s EXCEPT !.err = Err(OutputBufferTooSmall(remaining, Len(bytes)))]
          ELSE [s EXCEPT !.buf = Overwrite(s.buf, QOI_HEADER_SIZE + s.written, bytes),
                         !.written = s.written + Len(bytes)]
\* GenericWriter::write_one / write_many: write_all on the underlying writer
GenericWriter_write(s, bytes) ==
    IF s.limit = Unlimited
      THEN [s EXCEPT !.buf = s.buf \o bytes, !.written = s.written + Len(bytes)]
    ELSE IF Len(bytes) > s.limit
      THEN [s EXCEPT !.buf = s.buf \o Take(bytes, s.limit), !.limit = 0, !.err = Err(IoError)]
    ELSE [s EXCEPT !.buf = s.buf \o bytes, !.limit = s.limit - Len(bytes),
                   !.written = s.written + Len(bytes)]
\* Writer::write_one / write_many followed by `?`: nothing is written after a failure
Write(s, bytes) ==
    IF s.err # NoResult THEN s
    ELSE IF s.kind = "stream" THEN GenericWriter_write(s, bytes)
    ELSE BytesMut_write(s, bytes)
CurSink == Sink(sink, buf, limit, written, NoResult)

(***************************************************************************)
(* encode_impl_all: the const generics and the pixel reader of each layout *)
(***************************************************************************)
\* N, the channel count of the Pixel<N> the layout is encoded with
pixel_N(rc) == IF rc \in {"Rgb", "Bgr", "Rgbx", "Xrgb", "Bgrx"} THEN 3 ELSE 4
\* R, the bytes of one source pixel
chunk_R(rc) == IF rc \in {"Rgb", "Bgr"} THEN 3 ELSE 4
\* read_px(&mut px, chunk)
read_px(rc, p, c) ==
    CASE rc = "Rgb"  -> read(3, p, c)
      [] rc = "Bgr"  -> update_rgb(p, c[3], c[2], c[1])
      [] rc = "Rgba" -> read(4, p, c)
      [] rc = "Argb" -> update_rgba(4, p, c[2], c[3], c[4], c[1])
      [] rc = "Rgbx" -> read(3, p, SubSeq(c, 1, 3))
      [] rc = "Xrgb" -> update_rgb(p, c[2], c[3], c[4])
      [] rc = "Bgra" -> update_rgba(4, p, c[3], c[2], c[1], c[4])
      [] rc = "Abgr" -> update_rgba(4, p, c[4], c[3], c[2], c[1])
      [] rc = "Bgrx" -> update_rgb(p, c[3], c[2], c[1])
      [] rc = "Xbgr" -> update_rgb(p, c[4], c[3], c[2])

(***************************************************************************)
(* encode_impl.                                                            *)
(***************************************************************************)
\* data.chunks_exact(stride).take(height): the rows the loop visits
n_rows(data, stride, height) == Min(height, Len(data) \div stride)
\* the pixels the loop visits
n_visited(e) == n_rows(e.data, e.stride, e.header.height) * e.header.width
\* the offset in data of the chunk read in iteration k (0-based)
chunk_offset(k, width, stride, R) == (k \div width) * stride + (k % width) * R
chunk_at(e, k) ==
    LET off == chunk_offset(k, e.header.width, e.stride, chunk_R(e.raw_channels))
    IN  SubSeq(e.data, off + 1, off + chunk_R(e.raw_channels))
\* (mutant) the run written out one pixel late
run_ends_late(r, k, n) == r = RunMax + 1 \/ k = n - 1
\* a run is written out when it reaches 62 or the image ends
run_ends(r, k, n) == r = RunMax \/ k = n - 1
\* the byte that flushes a pending run in the build with feature "reference"
run_flush_reference(r, allowed, h_prev) == QOI_OP_RUN + (r - 1)
\* (mutant) the substitution made without looking at index_allowed
run_flush_unguarded(r, allowed, h_prev) ==
    IF r = 1 THEN QOI_OP_INDEX + h_prev ELSE QOI_OP_RUN + (r - 1)
\* the byte that flushes a pending run before a new pixel (default, non-reference build)
run_flush(r, allowed, h_prev) ==
    IF r = 1 /\ allowed THEN QOI_OP_INDEX + h_prev ELSE QOI_OP_RUN + (r - 1)

\* Encoder::required_buf_len
required_buf_len(e) == encode_max_len(e.header.width, e.header.height, e.header.channels)

\* the locals of encode_impl before the first pixel, writing to sink s
impl_start(s) ==
    [index |-> [h \in 0..63 |-> Pixel_new],
     px_prev |-> with_a(Pixel_new, 255),
     hash_prev |-> hash_index(with_a(Pixel_new, 255)),
     run |-> 0,
     px |-> with_a(Pixel_new, 255),
     index_allowed |-> FALSE,
     i |-> 0,
     sink |-> s]

\* one iteration of the pixel loop of encode_impl, on the locals st, in the build with
\* (reference) or without the feature "reference"
impl_pixel_cfg(reference, e, st) ==
    LET N == pixel_N(e.raw_channels)
        p == read_px(e.raw_channels, st.px, chunk_at(e, st.i))
    IN  IF p = st.px_prev
          THEN IF run_ends(st.run + 1, st.i, n_pixels(e.header))
                 THEN [st EXCEPT !.px = p, !.i = st.i + 1, !.run = 0,
                                 !.sink = Write(st.sink, <<QOI_OP_RUN + st.run>>)]
                 ELSE [st EXCEPT !.px = p, !.i = st.i + 1, !.run = st.run + 1]
          ELSE LET px_rgba == as_rgba(N, p, 255)
                   h == hash_index(px_rgba)
                   s1 == IF st.run # 0
                           THEN Write(st.sink,
                                      <<IF reference
                                          THEN run_flush_reference(st.run, st.index_allowed,
                                                                   st.hash_prev)
                                          ELSE run_flush(st.run, st.index_allowed,
                                                         st.hash_prev)>>)
                           ELSE st.sink
                   s2 == IF st.index[h] = px_rgba
                           THEN Write(s1, <<QOI_OP_INDEX + h>>)
                           ELSE Write(s1, encode_into(N, p, st.px_prev))
               IN  [st EXCEPT !.px = p, !.i = st.i + 1, !.run = 0,
                              !.index_allowed = TRUE,
                              !.hash_prev = h,
                              !.index = [st.index EXCEPT ![h] = px_rgba],
                              !.px_prev = p,
                              !.sink = s2]
\* the iteration in the reference build
impl_pixel_reference(e, st) == impl_pixel_cfg(TRUE, e, st)
\* (mutant) hash_prev left as it was when the pixel is found in the index
impl_pixel_stale_hash(e, st) ==
    LET N == pixel_N(e.raw_channels)
        p == read_px(e.raw_channels, st.px, chunk_at(e, st.i))
    IN  IF p = st.px_prev
          THEN IF run_ends(st.run + 1, st.i, n_pixels(e.header))
                 THEN [st EXCEPT !.px = p, !.i = st.i + 1, !.run = 0,
                                 !.sink = Write(st.sink, <<QOI_OP_RUN + st.run>>)]
                 ELSE [st EXCEPT !.px = p, !.i = st.i + 1, !.run = st.run + 1]
          ELSE LET px_rgba == as_rgba(N, p, 255)
                   h == hash_index(px_rgba)
                   s1 == IF st.run # 0
                           THEN Write(st.sink,
                                      <<run_flush(st.run, st.index_allowed, st.hash_prev)>>)
                           ELSE st.sink
                   s2 == IF st.index[h] = px_rgba
                           THEN Write(s1, <<QOI_OP_INDEX + h>>)
                           ELSE Write(s1, encode_into(N, p, st.px_prev))
               IN  [st EXCEPT !.px = p, !.i = st.i + 1, !.run = 0,
                              !.index_allowed = TRUE,
                              !.hash_prev = IF st.index[h] = px_rgba THEN st.hash_prev ELSE h,
                              !.index = [st.index EXCEPT ![h] = px_rgba],
                              !.px_prev = p,
                              !.sink = s2]
\* (mutant) a run of one that could be written as OP_INDEX is not written at all
impl_pixel_drops_run_of_one(e, st) ==
    LET p == read_px(e.raw_channels, st.px, chunk_at(e, st.i))
    IN  IF p # st.px_prev /\ st.run = 1 /\ st.index_allowed
          THEN impl_pixel_cfg(FALSE, e, [st EXCEPT !.run = 0])
          ELSE impl_pixel_cfg(FALSE, e, st)
\* (mutant) the index hit decided on r, g, b alone
impl_pixel_rgb_hit(e, st) ==
    LET p == read_px(e.raw_channels, st.px, chunk_at(e, st.i))
        px_rgba == as_rgba(pixel_N(e.raw_channels), p, 255)
        h == hash_index(px_rgba)
    IN  IF p # st.px_prev /\ SubSeq(st.index[h], 1, 3) = SubSeq(px_rgba, 1, 3)
          THEN impl_pixel_cfg(FALSE, e, [st EXCEPT !.index[h] = px_rgba])
          ELSE impl_pixel_cfg(FALSE, e, st)
\* one iteration of the pixel loop of encode_impl, on the locals st (default build)
impl_pixel(e, st) == impl_pixel_cfg(FALSE, e, st)

\* (mutant) eight zero bytes for the padding
impl_finish_zeros(st) == [st EXCEPT !.sink = Write(st.sink, <<0, 0, 0, 0, 0, 0, 0, 0>>)]
\* the end of encode_impl: the padding is written
impl_finish(st) == [st EXCEPT !.sink = Write(st.sink, QOI_PADDING)]

CurImpl ==
    [index |-> index, px_prev |-> px_prev, hash_prev |-> hash_prev, run |-> run, px |-> px,
     index_allowed |-> index_allowed, i |-> i, sink |-> CurSink]

\* the locals and the sink become those of st
SetImpl(st) ==
    /\ index' = st.index
    /\ px_prev' = st.px_prev
    /\ hash_prev' = st.hash_prev
    /\ run' = st.run
    /\ px' = st.px
    /\ index_allowed' = st.index_allowed
    /\ i' = st.i
    /\ buf' = st.sink.buf
    /\ limit' = st.sink.limit
    /\ written' = st.sink.written

StartImpl(s) ==
    /\ pc' = "loop"
    /\ SetImpl(impl_start(s))
    /\ sink' = s.kind
    /\ result' = NoResult

Return(r) ==
    /\ pc' = "done"
    /\ result' = r

\* the buffers encode_to_buf is called with: too short, and longer than needed,
\* every byte holding a value of Fills before the call
Fills == {170}
BufLens(required) == {0, required - 1, required + 1}

\* (mutant) encode_to_buf writing the header before it looks at the buffer's length
EncodeToBuf_header_first ==
    /\ pc = "ready"
    /\ \E len \in BufLens(required_buf_len(enc)) : \E fill \in Fills :
         LET b0 == [j \in 1..len |-> fill]
         IN  IF len < required_buf_len(enc)
               THEN /\ Return(Err(OutputBufferTooSmall(len, required_buf_len(enc))))
                    /\ buf' = Overwrite(b0, 0, header_encode(enc.header))
                    /\ sink' = "buf"
                    /\ UNCHANGED <<limit, written, implVars>>
               ELSE StartImpl(Sink("buf", Overwrite(b0, 0, header_encode(enc.header)),
                                   Unlimited, 0, NoResult))
    /\ UNCHANGED <<ctor, args, enc>>

\* Encoder::encode_to_buf
EncodeToBuf ==
    /\ pc = "ready"
    /\ \E len \in BufLens(required_buf_len(enc)) : \E fill \in Fills :
         LET b0 == [j \in 1..len |-> fill]
         IN  IF len < required_buf_len(enc)
               THEN /\ Return(Err(OutputBufferTooSmall(len, required_buf_len(enc))))
                    /\ buf' = b0
                    /\ sink' = "buf"
                    /\ UNCHANGED <<limit, written, implVars>>
               ELSE StartImpl(Sink("buf", Overwrite(b0, 0, header_encode(enc.header)),
                                   Unlimited, 0, NoResult))
    /\ UNCHANGED <<ctor, args, enc>>

\* Encoder::encode_to_vec: encode_to_buf on vec![0; required_buf_len()], then truncate
EncodeToVec ==
    /\ pc = "ready"
    /\ StartImpl(Sink("vec",
                      Overwrite([j \in 1..required_buf_len(enc) |-> 0], 0,
                                header_encode(enc.header)),
                      Unlimited, 0, NoResult))
    /\ UNCHANGED <<ctor, args, enc>>

\* the writers encode_to_stream is called with: the bytes they accept before failing
StreamLimits == {Unlimited, QOI_HEADER_SIZE - 1, QOI_HEADER_SIZE + 1}

\* Encoder::encode_to_stream
EncodeToStream ==
    /\ pc = "ready"
    /\ \E lim \in StreamLimits :
         LET s == GenericWriter_write(Sink("stream", <<>>, lim, 0, NoResult),
                                      header_encode(enc.header))
         IN  IF s.err # NoResult
               THEN /\ Return(s.err)
                    /\ buf' = s.buf
                    /\ limit' = s.limit
                    /\ sink' = "stream"
                    /\ UNCHANGED <<written, implVars>>
               ELSE StartImpl([s EXCEPT !.written = 0])
    /\ UNCHANGED <<ctor, args, enc>>

\* one iteration of the pixel loop of encode_impl; a failed write returns the error
EncodePixel ==
    /\ pc = "loop"
    /\ i < n_visited(enc)
    /\ LET st == impl_pixel(enc, CurImpl)
       IN  /\ SetImpl(st)
           /\ IF st.sink.err # NoResult THEN Return(st.sink.err) ELSE UNCHANGED <<pc, result>>
    /\ UNCHANGED <<ctor, args, enc, sink>>

\* the end of encode_impl (the padding and the count of bytes written) and of the
\* entry point that called it
EncodeFinish ==
    /\ pc = "loop"
    /\ i >= n_visited(enc)
    /\ LET st == impl_finish(CurImpl)
       IN  IF st.sink.err # NoResult
             THEN /\ SetImpl(st)
                  /\ Return(st.sink.err)
             ELSE /\ SetImpl([st EXCEPT !.sink.buf =
                                 IF sink = "vec"
                                   THEN Take(st.sink.buf, QOI_HEADER_SIZE + st.sink.written)
                                   ELSE st.sink.buf])
                  /\ Return(Ok(QOI_HEADER_SIZE + st.sink.written))
    /\ UNCHANGED <<ctor, args, enc, sink>>

(***************************************************************************)
(* encode_impl and the entry points as functions of the encoder.           *)
(***************************************************************************)
\* k more iterations of the pixel loop, or as many as come before the first failed
\* write (the iterations are taken in two halves, which keeps the recursion shallow)
RECURSIVE impl_steps(_, _, _)
impl_steps(e, st, k) ==
    IF k <= 0 \/ st.sink.err # NoResult THEN st
    ELSE IF k = 1 THEN impl_pixel(e, st)
    ELSE impl_steps(e, impl_steps(e, st, k \div 2), k - (k \div 2))
\* the pixel loop from the locals st on
impl_loop(e, st) == impl_steps(e, st, n_visited(e) - st.i)
\* encode_impl(buf, data, width, height, stride, read_px), from the first pixel on
encode_impl(e, s) ==
    LET st == impl_loop(e, impl_start(s))
    IN  IF st.sink.err # NoResult THEN st ELSE impl_finish(st)
\* Encoder::encode_to_vec as a function: the bytes returned, or the error
encode_to_vec(e) ==
    LET st == encode_impl(e, Sink("vec",
                                  Overwrite([j \in 1..required_buf_len(e) |-> 0], 0,
                                            header_encode(e.header)),
                                  Unlimited, 0, NoResult))
    IN  IF st.sink.err # NoResult THEN st.sink.err
        ELSE [kind |-> "Ok", bytes |-> Take(st.sink.buf, QOI_HEADER_SIZE + st.sink.written)]

\* the same in the reference build
RECURSIVE impl_steps_reference(_, _, _)
impl_steps_reference(e, st, k) ==
    IF k <= 0 \/ st.sink.err # NoResult THEN st
    ELSE IF k = 1 THEN impl_pixel_reference(e, st)
    ELSE impl_steps_reference(e, impl_steps_reference(e, st, k \div 2), k - (k \div 2))
impl_loop_reference(e, st) == impl_steps_reference(e, st, n_visited(e) - st.i)
encode_impl_reference(e, s) ==
    LET st == impl_loop_reference(e, impl_start(s))
    IN  IF st.sink.err # NoResult THEN st ELSE impl_finish(st)
encode_to_vec_reference(e) ==
    LET st == encode_impl_reference(e, Sink("vec",
                                            Overwrite([j \in 1..required_buf_len(e) |-> 0], 0,
                                                      header_encode(e.header)),
                                            Unlimited, 0, NoResult))
    IN  IF st.sink.err # NoResult THEN st.sink.err
        ELSE [kind |-> "Ok", bytes |-> Take(st.sink.buf, QOI_HEADER_SIZE + st.sink.written)]

(***************************************************************************)
(* The decoder (crate::decode).                                            *)
(***************************************************************************)
UnexpectedBufferEnd == [kind |-> "UnexpectedBufferEnd"]
InvalidPadding == [kind |-> "InvalidPadding"]
InvalidMagic == [kind |-> "InvalidMagic"]
InvalidColorSpace(c) == [kind |-> "InvalidColorSpace", colorspace |-> c]
FromBE32(b) == ((b[1] * 256 + b[2]) * 256 + b[3]) * 256 + b[4]

\* decode_header
decode_header(bytes) ==
    IF Len(bytes) < QOI_HEADER_SIZE THEN Err(UnexpectedBufferEnd)
    ELSE IF SubSeq(bytes, 1, 4) # QOI_MAGIC THEN Err(InvalidMagic)
    ELSE IF bytes[13] \notin {3, 4} THEN Err(InvalidChannels(bytes[13]))
    ELSE IF bytes[14] \notin ColorSpaces THEN Err(InvalidColorSpace(bytes[14]))
    ELSE try_new(FromBE32(SubSeq(bytes, 5, 8)), FromBE32(SubSeq(bytes, 9, 12)),
                 bytes[13], bytes[14])

\* the decoder's running state before the first pixel
decode_start ==
    [pos |-> QOI_HEADER_SIZE, prev |-> with_a(Pixel_new, 255),
     index |-> [h \in 0..63 |-> Pixel_new], run |-> 0, out |-> <<>>, err |-> NoResult]

\* the pixel as the decoder of a C-channel image keeps it
keep(C, p) == IF C = 4 THEN p ELSE with_a(p, 255)

\* the decoder produces one pixel of a C-channel image
decode_pixel(bytes, C, d) ==
    LET emit(p, pos, stored) ==
            [d EXCEPT !.prev = p, !.pos = pos,
                      !.index = IF stored THEN [d.index EXCEPT ![hash_index(p)] = p]
                                          ELSE d.index,
                      !.out = d.out \o SubSeq(p, 1, C)]
        avail == Len(bytes) - d.pos
        b == bytes[d.pos + 1]
        arg(k) == bytes[d.pos + 1 + k]
    IN  IF d.run > 0
          THEN [d EXCEPT !.run = d.run - 1, !.out = d.out \o SubSeq(d.prev, 1, C)]
        ELSE IF avail < 1 THEN [d EXCEPT !.err = Err(UnexpectedBufferEnd)]
        ELSE IF b = QOI_OP_RGB
          THEN IF avail < 4 THEN [d EXCEPT !.err = Err(UnexpectedBufferEnd)]
               ELSE emit(<<arg(1), arg(2), arg(3), d.prev[4]>>, d.pos + 4, TRUE)
        ELSE IF b = QOI_OP_RGBA
          THEN IF avail < 5 THEN [d EXCEPT !.err = Err(UnexpectedBufferEnd)]
               ELSE emit(keep(C, <<arg(1), arg(2), arg(3), arg(4)>>), d.pos + 5, TRUE)
        ELSE IF b < QOI_OP_DIFF
          THEN emit(keep(C, d.index[b]), d.pos + 1, FALSE)
        ELSE IF b < QOI_OP_LUMA
          THEN emit(<<Wrap(d.prev[1] + ((b \div 16) % 4) + 254),
                      Wrap(d.prev[2] + ((b \div 4) % 4) + 254),
                      Wrap(d.prev[3] + (b % 4) + 254),
                      d.prev[4]>>, d.pos + 1, TRUE)
        ELSE IF b < QOI_OP_RUN
          THEN IF avail < 2 THEN [d EXCEPT !.err = Err(UnexpectedBufferEnd)]
               ELSE LET dg == (b % 64) + 224
                    IN  emit(<<Wrap(d.prev[1] + dg + (arg(1) \div 16) + 248),
                               Wrap(d.prev[2] + dg),
                               Wrap(d.prev[3] + dg + (arg(1) % 16) + 248),
                               d.prev[4]>>, d.pos + 2, TRUE)
        ELSE [d EXCEPT !.run = b % 64, !.pos = d.pos + 1,
                       !.out = d.out \o SubSeq(d.prev, 1, C)]

\* the decoder's state after k more pixels (or at its first error)
RECURSIVE decode_pixels(_, _, _, _)
decode_pixels(bytes, C, d, k) ==
    IF k = 0 \/ d.err # NoResult THEN d
    ELSE IF k = 1 THEN decode_pixel(bytes, C, d)
    ELSE decode_pixels(bytes, C, decode_pixels(bytes, C, d, k \div 2), k - (k \div 2))

\* decode_to_vec: the header and the pixels, in the header's channel count
decode_to_vec(bytes) ==
    LET h == decode_header(bytes)
    IN  IF h.kind = "Err" THEN h
        ELSE LET d == decode_pixels(bytes, h.header.channels, decode_start, n_pixels(h.header))
             IN  IF d.err # NoResult THEN d.err
                 ELSE IF Len(bytes) - d.pos < QOI_PADDING_SIZE THEN Err(UnexpectedBufferEnd)
                 ELSE IF SubSeq(bytes, d.pos + 1, d.pos + QOI_PADDING_SIZE) # QOI_PADDING
                   THEN Err(InvalidPadding)
                 ELSE [kind |-> "Ok", header |-> h.header, pixels |-> d.out]

(***************************************************************************)
(* Reading an opcode stream (the opcode alphabet of the format).           *)
(***************************************************************************)
is_run(b) == b >= QOI_OP_RUN /\ b < QOI_OP_RGB
\* the bytes an opcode occupies, given its first byte
op_len(b) ==
    IF b = QOI_OP_RGB THEN 4
    ELSE IF b = QOI_OP_RGBA THEN 5
    ELSE IF b >= QOI_OP_LUMA /\ b < QOI_OP_RUN THEN 2
    ELSE 1
\* the pixels an opcode stands for
op_pixels(b) == IF is_run(b) THEN (b % 64) + 1 ELSE 1
\* the opcodes of bytes[pos+1 .. end]: how many are runs, how many are not, the pixels
\* they stand for, and whether the last opcode ends exactly at end
RECURSIVE scan_ops(_, _, _, _)
scan_ops(bytes, pos, end, acc) ==
    IF pos >= end THEN [acc EXCEPT !.ok = (pos = end)]
    ELSE LET b == bytes[pos + 1]
         IN  scan_ops(bytes, pos + op_len(b), end,
                      [acc EXCEPT !.runs = acc.runs + (IF is_run(b) THEN 1 ELSE 0),
                                  !.nonrun = acc.nonrun + (IF is_run(b) THEN 0 ELSE 1),
                                  !.pixels = acc.pixels + op_pixels(b)])
\* the opcodes between the header and the padding of an encoded image of n bytes
opcodes(bytes, n) ==
    scan_ops(bytes, QOI_HEADER_SIZE, n - QOI_PADDING_SIZE,
             [runs |-> 0, nonrun |-> 0, pixels |-> 0, ok |-> TRUE])

Next ==
    \/ New
    \/ NewRaw
    \/ WithColorspace
    \/ EncodeToBuf
    \/ EncodeToVec
    \/ EncodeToStream
    \/ EncodePixel
    \/ EncodeFinish

Spec == Init /\ [][Next]_vars


(***************************************************************************)
(* The fuzz target fuzz/fuzz_targets/qoi_decode.rs.                        *)
(***************************************************************************)
\* the longest data the fuzzer hands over
MaxFuzzLen == 3
\* the u16 inputs w and h: the smallest, and the one that gives 260
FuzzDims == {0, 1, 259}
\* the bytes of data: OP_INDEX 0, an OP_DIFF, an OP_LUMA, runs of 2 and of 62, OP_RGB,
\* OP_RGBA
FuzzBytes == {0, 85, 160, 193, 253, 254, 255}
FuzzData == UNION { [1..n -> FuzzBytes] : n \in 0..MaxFuzzLen }
\* let (w, h) = (1 + w % 260, 1 + h % 260)
fuzz_dim(w) == 1 + (w % 260)
\* (mutant) the width written low byte first
fuzz_vec_low_first(w, h, channels, data) ==
    <<113, 111, 105, 102, 0, 0, w % 256, w \div 256, 0, 0, h \div 256, h % 256, channels, 0>>
        \o data \o <<0, 0, 0, 0, 0, 0, 0, 1>>
\* the vec the target builds: the header, the data, the padding
fuzz_vec(w, h, channels, data) ==
    <<113, 111, 105, 102, 0, 0, w \div 256, w % 256, 0, 0, h \div 256, h % 256, channels, 0>>
        \o data \o <<0, 0, 0, 0, 0, 0, 0, 1>>

\* the target is called: vec is built (kept in buf) and header_expected (kept in
\* enc.header)
FuzzInput ==
    /\ pc = "start"
    /\ \E w0 \in FuzzDims, h0 \in FuzzDims, is_4 \in BOOLEAN, data \in FuzzData :
         LET w == fuzz_dim(w0)
             h == fuzz_dim(h0)
             channels == IF is_4 THEN 4 ELSE 3
         IN  /\ buf' = fuzz_vec(w, h, channels, data)
             /\ enc' = [NoEncoder EXCEPT !.header = Header(w, h, channels, 0)]
             /\ args' = Args(Len(data), w, h, 0, "none")
    /\ pc' = "fuzz"
    /\ UNCHANGED <<ctor, result, sink, limit, written, implVars>>

\* qoi_decode_header(&vec)
FuzzDecodeHeader ==
    /\ pc = "fuzz"
    /\ result' = decode_header(buf)
    /\ pc' = "fuzz_header"
    /\ UNCHANGED <<ctor, args, enc, sink, buf, limit, written, implVars>>

\* qoi_decode_to_vec(&vec)
FuzzDecode ==
    /\ pc = "fuzz_header"
    /\ result' = decode_to_vec(buf)
    /\ pc' = "fuzz_done"
    /\ UNCHANGED <<ctor, args, enc, sink, buf, limit, written, implVars>>

FuzzNext == FuzzInput \/ FuzzDecodeHeader \/ FuzzDecode

FuzzSpec == Init /\ [][FuzzNext]_vars

(***************************************************************************)
(* The encoder on pairs of pixels: a previous pixel and a current one at   *)
(* chosen distances from it.                                               *)
(***************************************************************************)
\* the r, g, b of the previous pixel
PairBases == { <<0, 0, 0>>, <<255, 255, 255>>, <<128, 0, 254>> }
\* what is added to each of them: the ends of the OP_DIFF and OP_LUMA ranges, the
\* values next to them, and half the byte range
PairDeltas == {-33, -32, -9, -8, -3, -2, 0, 1, 2, 7, 31, 128}
\* the alphas of the two pixels of a 4-channel pair
PairAlphas == { <<255, 255>>, <<255, 0>>, <<0, 0>> }
Shifted(b, dr, dg, db) == <<Wrap(b[1] + dr + 256), Wrap(b[2] + dg + 256), Wrap(b[3] + db + 256)>>
PairInputs ==
    { <<b \o Shifted(b, d[1], d[2], d[3]), 2, 1>> :
        b \in PairBases, d \in PairDeltas \X PairDeltas \X PairDeltas }
    \cup
    { <<b \o <<a[1]>> \o Shifted(b, d[1], d[2], d[3]) \o <<a[2]>>, 2, 1>> :
        b \in PairBases, d \in PairDeltas \X PairDeltas \X PairDeltas, a \in PairAlphas }

\* Encoder::new on a pair
NewPair ==
    /\ pc = "start"
    /\ \E inp \in PairInputs : Construct("new", Args(Len(inp[1]), inp[2], inp[3], 0, "none"),
                                        Encoder_new(inp[1], inp[2], inp[3]))

PairNext == NewPair \/ EncodeToVec \/ EncodePixel \/ EncodeFinish

PairSpec == Init /\ [][PairNext]_vars
(***************************************************************************)
(* Properties.                                                             *)
(***************************************************************************)
Encoded == pc = "done" /\ result.kind = "Ok"

\* C1: an image accepted by Encoder::new and encoded by encode_to_vec decodes, with
\* decode_to_vec, to the header the encoder built and to the data, byte for byte.
RoundTrip ==
    (pc = "done" /\ ctor = "new" /\ sink = "vec") =>
        /\ result.kind = "Ok"
        /\ decode_to_vec(buf).kind = "Ok"
        /\ decode_to_vec(buf).header = enc.header
        /\ decode_to_vec(buf).pixels = enc.data
\* a three-pixel image with a run of one in the middle has made the round trip
RoundTripWitness ==
    /\ Encoded /\ ctor = "new" /\ sink = "vec"
    /\ n_pixels(enc.header) = 3
    /\ chunk_at(enc, 0) = chunk_at(enc, 1)
    /\ chunk_at(enc, 1) # chunk_at(enc, 2)
    /\ opcodes(buf, result.n).nonrun = 3
    /\ decode_to_vec(buf).kind = "Ok"
    /\ decode_to_vec(buf).pixels = enc.data

\* C2: for an encoder built by Encoder::new, encode_to_buf never writes more than
\* encode_max_len(w, h, channels) bytes, and no write of encode_impl runs out of
\* capacity once the buffer has passed the required_buf_len check.
SizeBound ==
    (ctor = "new" /\ sink \in {"buf", "vec"}) =>
        /\ pc = "loop" =>
              QOI_HEADER_SIZE + written + QOI_PADDING_SIZE
                  <= encode_max_len(enc.header.width, enc.header.height, enc.header.channels)
        /\ (pc = "done" /\ result.kind = "Ok") =>
              result.n <= encode_max_len(enc.header.width, enc.header.height,
                                         enc.header.channels)
        /\ (pc = "done" /\ result.kind = "Err") =>
              /\ Len(buf) < required_buf_len(enc)
              /\ written = 0
\* an image whose encoding takes exactly encode_max_len bytes
SizeBoundWitness ==
    /\ Encoded /\ ctor = "new" /\ sink = "vec"
    /\ n_pixels(enc.header) >= 2
    /\ result.n = encode_max_len(enc.header.width, enc.header.height, enc.header.channels)

\* the canonical r, g, b(, a) channels of a source chunk c in layout L, by the layout table
Canonical(L, c) ==
    CASE L = "Rgb"  -> <<c[1], c[2], c[3]>>
      [] L = "Bgr"  -> <<c[3], c[2], c[1]>>
      [] L = "Rgba" -> <<c[1], c[2], c[3], c[4]>>
      [] L = "Argb" -> <<c[2], c[3], c[4], c[1]>>
      [] L = "Bgra" -> <<c[3], c[2], c[1], c[4]>>
      [] L = "Abgr" -> <<c[4], c[3], c[2], c[1]>>
      [] L = "Rgbx" -> <<c[1], c[2], c[3]>>
      [] L = "Xrgb" -> <<c[2], c[3], c[4]>>
      [] L = "Bgrx" -> <<c[3], c[2], c[1]>>
      [] L = "Xbgr" -> <<c[4], c[3], c[2]>>
HasAlpha(L) == L \in {"Rgba", "Argb", "Bgra", "Abgr"}
\* the image in canonical order: Canonical of every chunk, row by row
CanonicalImage(e) ==
    LET C == IF HasAlpha(e.raw_channels) THEN 4 ELSE 3
    IN  [j \in 1..(n_pixels(e.header) * C) |->
            Canonical(e.raw_channels, chunk_at(e, (j - 1) \div C))[((j - 1) % C) + 1]]
\* new_raw(data, w, h, w * bpp(L), L) on data of w * h * bpp(L) bytes
TightRaw ==
    /\ ctor = "new_raw"
    /\ enc.stride = enc.header.width * bytes_per_pixel(enc.raw_channels)
    /\ Len(enc.data) = n_pixels(enc.header) * bytes_per_pixel(enc.raw_channels)

\* C3: for each of the ten layouts L, what new_raw(data, w, h, w * bpp(L), L) encodes
\* decodes to the channels of every pixel in canonical order, as the layout table
\* selects them, the header's channel count being 3 without alpha and 4 with it.
LayoutLaw ==
    (pc = "done" /\ sink = "vec" /\ TightRaw) =>
        /\ result.kind = "Ok"
        /\ decode_to_vec(buf).kind = "Ok"
        /\ decode_to_vec(buf).header.channels = (IF HasAlpha(enc.raw_channels) THEN 4 ELSE 3)
        /\ decode_to_vec(buf).pixels = CanonicalImage(enc)
\* the same for the layouts other than Xbgr
LayoutLawButXbgr == enc.raw_channels # "Xbgr" => LayoutLaw

\* C4: Encoder::new with non-zero width and height fails with InvalidImageLength{size,
\* width, height} when the size of data is no multiple of width * height, else with
\* InvalidChannels{min(size / (width * height), 255)} when that quotient is not 3 or 4,
\* and else succeeds with that many channels and stride = width * channels.
NewInference ==
    (ctor = "new" /\ args.width > 0 /\ args.height > 0) =>
        LET n == args.width * args.height
            q == args.size \div n
        IN  IF args.size % n # 0
              THEN /\ pc = "failed"
                   /\ result = Err(InvalidImageLength(args.size, args.width, args.height))
            ELSE IF q \notin {3, 4}
              THEN /\ pc = "failed"
                   /\ result = Err(InvalidChannels(IF q < 255 THEN q ELSE 255))
            ELSE /\ pc # "failed"
                 /\ enc.header.channels = q
                 /\ enc.header.width = args.width
                 /\ enc.header.height = args.height
                 /\ enc.stride = args.width * q
                 /\ Len(enc.data) = args.size
\* a quotient past 255 has been reported as InvalidChannels{255}
NewInferenceWitness ==
    /\ ctor = "new" /\ pc = "failed"
    /\ args.width * args.height > 0
    /\ args.size \div (args.width * args.height) > 255
    /\ result = Err(InvalidChannels(255))
\* the 12 bytes of the tests, taken as one pixel, have been refused as 12 channels
NewInferenceWitness12 ==
    /\ ctor = "new" /\ pc = "failed" /\ args.size = 12
    /\ result = Err(InvalidChannels(12))

\* the bytes data must have to cover every pixel of the image
Covering(a) == a.stride * (a.height - 1) + a.width * bytes_per_pixel(a.raw_channels)

\* C5: with stride >= width * bpp, Encoder::new_raw fails with InvalidImageLength
\* exactly when data is too short to cover all pixels (size < stride * (height - 1) +
\* width * bpp); data of that size or longer is accepted.
NewRawLength ==
    (ctor = "new_raw" /\ args.width > 0 /\ args.height > 0
        /\ args.stride >= args.width * bytes_per_pixel(args.raw_channels)) =>
        IF args.size < Covering(args)
          THEN /\ pc = "failed"
               /\ result = Err(InvalidImageLength(args.size, args.width, args.height))
          ELSE pc # "failed"

\* C6: every successful encode has read width * height pixels, the opcodes it wrote
\* stand for exactly width * height pixels, and no run is pending when the padding
\* is written.
PixelCoverage ==
    Encoded =>
        /\ i = n_pixels(enc.header)
        /\ run = 0
        /\ opcodes(buf, result.n).ok
        /\ opcodes(buf, result.n).pixels = n_pixels(enc.header)
\* the same for the encoders whose data has stride * height bytes or more
PixelCoverageFullRows ==
    Len(enc.data) >= enc.stride * enc.header.height => PixelCoverage

\* C7: encode_to_buf on a buffer shorter than required_buf_len() returns
\* OutputBufferTooSmall{size: buf.len(), required: required_buf_len()} and leaves
\* every byte of the buffer as it was.
TooSmallUntouched ==
    (sink = "buf" /\ pc = "done" /\ Len(buf) < required_buf_len(enc)) =>
        /\ result = Err(OutputBufferTooSmall(Len(buf), required_buf_len(enc)))
        /\ \E fill \in Fills : \A j \in 1..Len(buf) : buf[j] = fill
\* a buffer one byte short has been refused although the encoded image is smaller
TooSmallWitness ==
    /\ sink = "buf" /\ pc = "done"
    /\ Len(buf) = required_buf_len(enc) - 1
    /\ result.kind = "Err"
    /\ encode_to_vec(enc).kind = "Ok"
    /\ Len(encode_to_vec(enc).bytes) < Len(buf)

\* C8: a successful encode has written the 14 bytes of Encoder::header(), then whole
\* opcodes, then the 8 padding bytes 00 00 00 00 00 00 00 01 as the last bytes
\* written, and returns 14 + opcode bytes + 8.
StreamShape ==
    /\ pc = "loop" =>
          /\ Take(buf, QOI_HEADER_SIZE) = header_encode(enc.header)
          /\ scan_ops(buf, QOI_HEADER_SIZE, QOI_HEADER_SIZE + written,
                      [runs |-> 0, nonrun |-> 0, pixels |-> 0, ok |-> TRUE]).ok
          /\ sink = "stream" => Len(buf) = QOI_HEADER_SIZE + written
    /\ Encoded =>
          /\ Take(buf, QOI_HEADER_SIZE) = header_encode(enc.header)
          /\ opcodes(buf, result.n).ok
          /\ SubSeq(buf, result.n - QOI_PADDING_SIZE + 1, result.n) = QOI_PADDING
          /\ result.n = QOI_HEADER_SIZE + written
          /\ sink \in {"vec", "stream"} => Len(buf) = result.n
          /\ sink = "buf" => \E fill \in Fills : \A j \in (result.n + 1)..Len(buf) : buf[j] = fill
\* a stream has received a header, run and non-run opcodes, and the padding
StreamShapeWitness ==
    /\ Encoded /\ sink = "stream"
    /\ opcodes(buf, result.n).runs >= 1
    /\ opcodes(buf, result.n).nonrun >= 2

\* C9: whatever the colorspace given to with_colorspace, the encoder keeps its data,
\* stride, layout, width, height and channels, and its output differs from the
\* output without the call in header byte 13 at most.
ColorspaceInformational ==
    /\ pc = "ready" =>
          \A cs \in ColorSpaces :
              LET e2 == with_colorspace(enc, cs)
                  o1 == encode_to_vec(enc)
                  o2 == encode_to_vec(e2)
              IN  /\ [e2 EXCEPT !.header.colorspace = enc.header.colorspace] = enc
                  /\ o1.kind = o2.kind
                  /\ o1.kind = "Ok" =>
                        /\ Len(o1.bytes) = Len(o2.bytes)
                        /\ \A j \in 1..Len(o1.bytes) : j # 14 => o1.bytes[j] = o2.bytes[j]
                        /\ o2.bytes[14] = cs
    /\ (Encoded /\ sink = "vec") => buf = encode_to_vec(enc).bytes
\* an image has been encoded after with_colorspace(Linear)
ColorspaceWitness ==
    /\ Encoded /\ sink = "vec"
    /\ enc.header.colorspace = LINEAR
    /\ buf[14] = LINEAR
    /\ n_pixels(enc.header) >= 2

Ceil(a, b) == (a + b - 1) \div b
\* an image handed to Encoder::new whose pixels are all the same
Uniform ==
    /\ ctor = "new"
    /\ \A k \in 0..(n_pixels(enc.header) - 1) : chunk_at(enc, k) = chunk_at(enc, 0)
\* its pixel is the pixel encode_impl starts from, {0, 0, 0, 255}
StartsAtInitial ==
    read_px(enc.raw_channels, with_a(Pixel_new, 255), chunk_at(enc, 0)) = with_a(Pixel_new, 255)

\* C10 as stated: a uniform image of N pixels encodes to ceil(N / 62) OP_RUN bytes
\* plus one non-run opcode, and decodes to the uniform data.
UniformAsStated ==
    (Encoded /\ sink = "vec" /\ Uniform) =>
        /\ opcodes(buf, result.n).runs = Ceil(n_pixels(enc.header), RunMax)
        /\ opcodes(buf, result.n).nonrun = 1
        /\ decode_to_vec(buf).kind = "Ok"
        /\ decode_to_vec(buf).pixels = enc.data

\* C10, amended: a uniform image of N pixels encodes to one non-run opcode followed by
\* ceil((N - 1) / 62) OP_RUN bytes when its pixel differs from the initial previous
\* pixel {0, 0, 0, 255}, and to ceil(N / 62) OP_RUN bytes and nothing else when it is
\* that pixel; decoding reproduces the uniform data.
UniformRuns ==
    (Encoded /\ sink = "vec" /\ Uniform) =>
        /\ opcodes(buf, result.n).ok
        /\ IF StartsAtInitial
             THEN /\ opcodes(buf, result.n).runs = Ceil(n_pixels(enc.header), RunMax)
                  /\ opcodes(buf, result.n).nonrun = 0
             ELSE /\ opcodes(buf, result.n).runs = Ceil(n_pixels(enc.header) - 1, RunMax)
                  /\ opcodes(buf, result.n).nonrun = 1
        /\ decode_to_vec(buf).kind = "Ok"
        /\ decode_to_vec(buf).pixels = enc.data
\* a uniform image of 63 pixels has been encoded as one opcode and one run of 62
UniformRunsWitness ==
    /\ Encoded /\ sink = "vec" /\ Uniform
    /\ n_pixels(enc.header) = RunMax + 1
    /\ ~StartsAtInitial
    /\ opcodes(buf, result.n).runs = 1
    /\ buf[result.n - QOI_PADDING_SIZE] = QOI_OP_RUN + RunMax - 1

\* C11: under the fuzz target (a header qoif 0 0 W W 0 0 H H C 0 with 1 <= W, H <= 260
\* and C in {3, 4}, then arbitrary bytes, then the padding) decode_header returns the
\* header the target expects, and decode_to_vec, whenever it succeeds, returns that
\* header and exactly W * H * C bytes.
FuzzDecodeSize ==
    /\ pc = "fuzz_header" =>
          /\ result.kind = "Ok"
          /\ result.header = enc.header
    /\ (pc = "fuzz_done" /\ result.kind = "Ok") =>
          /\ result.header = enc.header
          /\ Len(result.pixels) = args.width * args.height * enc.header.channels
\* a run of 62 in front of a 2-pixel image has decoded to 2 pixels and no more
FuzzDecodeSizeWitness ==
    /\ pc = "fuzz_done" /\ result.kind = "Ok"
    /\ args.width * args.height = 2
    /\ buf[QOI_HEADER_SIZE + 1] = 253
    /\ Len(result.pixels) = 2 * enc.header.channels
\* data that ends before the last pixel has been refused
FuzzShortWitness ==
    /\ pc = "fuzz_done" /\ result.kind = "Err"
    /\ args.size = 1
    /\ args.width * args.height = 2

\* the bytes the sink has received from the encode operation: all a stream holds, and,
\* in a buffer that holds the header, the header and what encode_impl wrote after it
Received ==
    IF sink = "stream" THEN Len(buf)
    ELSE IF sink \in {"buf", "vec"} /\ Len(buf) >= QOI_HEADER_SIZE
            /\ Take(buf, QOI_HEADER_SIZE) = header_encode(enc.header)
      THEN QOI_HEADER_SIZE + written
    ELSE 0
ReturnedError == pc = "done" /\ result.kind = "Err"

\* C12 as stated: whenever encode_to_buf or encode_to_stream returns an error, the
\* sink has received at most the 14 header bytes.
ErrorAfterHeaderOnly == ReturnedError => Received <= QOI_HEADER_SIZE

\* C12, amended: an error returned before encode_impl starts leaves a buffer untouched
\* and a stream with less than the 14 header bytes; an error returned from inside
\* encode_impl is the failure of a write, and the sink then holds the whole header
\* and whatever was written after it.
ErrorOrdering ==
    [][ReturnedError' =>
          /\ (pc = "ready" /\ sink' \in {"buf", "vec"}) =>
                /\ result'.err.kind = "OutputBufferTooSmall"
                /\ Received' = 0
          /\ (pc = "ready" /\ sink' = "stream") =>
                /\ result'.err = IoError
                /\ Received' < QOI_HEADER_SIZE
          /\ pc = "loop" =>
                /\ result'.err.kind = IF sink = "stream" THEN "IoError"
                                      ELSE "OutputBufferTooSmall"
                /\ Received' >= QOI_HEADER_SIZE]_vars
\* a writer that fails inside the header has made encode_to_stream return the error
ErrorOrderingWitness ==
    /\ ReturnedError /\ sink = "stream"
    /\ result.err = IoError
    /\ Received = QOI_HEADER_SIZE - 1
\* a writer that fails after the header has the header and one more byte
ErrorMidImageWitness ==
    /\ ReturnedError /\ sink = "stream"
    /\ result.err = IoError
    /\ Received = QOI_HEADER_SIZE + 1

\* an iteration of the pixel loop that writes a pending run out, and has written it
FlushesRun ==
    /\ pc = "loop" /\ i' = i + 1
    /\ run' = 0
    /\ run > 0 \/ px' = px_prev
    /\ written' > written
\* the pixels of the run written out, the last one included
FlushedLen == IF px' = px_prev THEN run + 1 ELSE run
\* the byte that writes it out
FlushedByte == buf'[QOI_HEADER_SIZE + written + 1]

\* C13: between two iterations of the pixel loop the run counter is within 0..61 (it
\* is written out and reset on reaching 62), and every OP_RUN byte written stands
\* for a run of 1..62 pixels: it lies in 0xC0..0xFD and is never 0xFE or 0xFF.
RunBound ==
    /\ [](run >= 0 /\ run <= RunMax - 1)
    /\ [][FlushesRun =>
            /\ FlushedLen >= 1 /\ FlushedLen <= RunMax
            /\ \/ /\ FlushedByte = QOI_OP_RUN + (FlushedLen - 1)
                  /\ FlushedByte >= QOI_OP_RUN /\ FlushedByte < QOI_OP_RGB
               \/ /\ FlushedLen = 1 /\ index_allowed
                  /\ FlushedByte = QOI_OP_INDEX + hash_prev]_vars
\* a run of 62 has been written out as 0xFD, with pixels of the image still to come
RunBoundWitness ==
    /\ pc = "loop" /\ run = 0
    /\ i = RunMax /\ i < n_visited(enc)
    /\ written = 1
    /\ buf[QOI_HEADER_SIZE + 1] = QOI_OP_RGB - 1

\* the previous pixel as the index table holds pixels
PrevRgba == as_rgba(pixel_N(enc.raw_channels), px_prev, 255)

\* C14: in every state of encode_impl where index_allowed is true, hash_prev is the
\* hash of the previous pixel and index[hash_prev] is that pixel (as RGBA), so the
\* OP_INDEX | hash_prev written for a run of one makes a decoder load the previous
\* pixel; while index_allowed is false the previous pixel is still the initial
\* {0,0,0,255}, which the table does not hold, and a run of one is written as OP_RUN.
SubstitutionSound ==
    pc = "loop" =>
        /\ index_allowed =>
              /\ hash_prev = hash_index(PrevRgba)
              /\ index[hash_prev] = PrevRgba
              /\ run_flush(1, index_allowed, hash_prev) = QOI_OP_INDEX + hash_index(PrevRgba)
              /\ keep(enc.header.channels, index[hash_prev]) = PrevRgba
        /\ ~index_allowed =>
              /\ PrevRgba = with_a(Pixel_new, 255)
              /\ index[hash_prev] # PrevRgba
              /\ run_flush(1, index_allowed, hash_prev) = QOI_OP_RUN
\* the second of two equal pixels, a run of one, has been written as OP_INDEX with the
\* hash of the first, and a decoder loads the first pixel again from it
SubstitutionWitness ==
    /\ pc = "loop" /\ sink = "vec" /\ index_allowed
    /\ i = 3 /\ run = 0
    /\ chunk_at(enc, 0) = chunk_at(enc, 1)
    /\ chunk_at(enc, 2) # chunk_at(enc, 1)
    /\ LET d1 == decode_pixels(buf, enc.header.channels, decode_start, 1)
       IN  /\ d1.prev # with_a(Pixel_new, 255)
           /\ buf[d1.pos + 1] = QOI_OP_INDEX + hash_index(d1.prev)
           /\ decode_pixel(buf, enc.header.channels, d1).prev = d1.prev

\* the positions where the bytes a and b, of one length, differ
DiffersAt(a, b) == { j \in 1..Len(a) : a[j] # b[j] }

\* C15: for the same image, encode_to_vec of the default build and of the reference
\* build succeed or fail together, and their outputs decode to the same thing and are
\* the same bytes, except that the default build has OP_INDEX | hash where the
\* reference build has OP_RUN | 0, the flush of a run of one.
ModeEquivalence ==
    (pc = "done" /\ sink = "vec") =>
        LET ref == encode_to_vec_reference(enc)
        IN  /\ result.kind = "Ok" <=> ref.kind = "Ok"
            /\ result.kind = "Ok" =>
                  /\ Len(buf) = Len(ref.bytes)
                  /\ \A j \in DiffersAt(buf, ref.bytes) :
                        /\ ref.bytes[j] = QOI_OP_RUN
                        /\ buf[j] < QOI_OP_DIFF
                        /\ j > QOI_HEADER_SIZE /\ j <= Len(buf) - QOI_PADDING_SIZE
                  /\ buf = ref.bytes \/ decode_to_vec(buf) = decode_to_vec(ref.bytes)
\* an image whose two builds' outputs differ in one byte has been encoded, and both
\* outputs decode to its data
ModeEquivalenceWitness ==
    /\ Encoded /\ sink = "vec" /\ ctor = "new"
    /\ LET ref == encode_to_vec_reference(enc)
       IN  /\ Cardinality(DiffersAt(buf, ref.bytes)) = 1
           /\ decode_to_vec(ref.bytes).kind = "Ok"
           /\ decode_to_vec(ref.bytes).pixels = enc.data
           /\ decode_to_vec(buf).pixels = enc.data

\* the default build has made the substitution: its output is not the reference's
Substituted(ref) == ref.kind = "Ok" /\ DiffersAt(buf, ref.bytes) # {}

\* C16 as stated: whenever the default build makes the substitution, its output is
\* strictly shorter than the output of the reference build for the same image.
SubstitutionShorter ==
    (Encoded /\ sink = "vec") =>
        LET ref == encode_to_vec_reference(enc)
        IN  Substituted(ref) => Len(buf) < Len(ref.bytes)

\* C16, amended: whenever the default build makes the substitution, its output has
\* exactly the length of the reference build's output for the same image: each
\* OP_INDEX byte of a substitution stands where the reference has one OP_RUN byte.
SubstitutionSameLength ==
    (Encoded /\ sink = "vec") =>
        LET ref == encode_to_vec_reference(enc)
        IN  /\ ref.kind = "Ok"
            /\ Len(buf) = Len(ref.bytes)
            /\ result.n = Len(ref.bytes)
\* the three pixels A, A, B have been encoded with the substitution, in as many bytes
\* as the reference build needs
SubstitutionSameLengthWitness ==
    /\ Encoded /\ sink = "vec"
    /\ n_pixels(enc.header) = 3
    /\ chunk_at(enc, 0) = chunk_at(enc, 1)
    /\ LET ref == encode_to_vec_reference(enc)
       IN  /\ Substituted(ref)
           /\ Len(buf) = Len(ref.bytes)

\* the encoder (locals st) and a decoder of its output bytes (state d) take the
\* remaining pixels one at a time: whether after each of them the decoder's previous
\* pixel and index table are the encoder's, and the states they end in
RECURSIVE lock_step(_, _, _, _)
lock_step(e, bytes, st, d) ==
    IF st.i >= n_visited(e) THEN [ok |-> TRUE, st |-> st, d |-> d]
    ELSE LET st2 == impl_pixel(e, st)
             d2 == decode_pixel(bytes, e.header.channels, d)
         IN  IF /\ d2.err = NoResult
                /\ d2.prev = as_rgba(pixel_N(e.raw_channels), st2.px_prev, 255)
                /\ d2.index = st2.index
               THEN lock_step(e, bytes, st2, d2)
               ELSE [ok |-> FALSE, st |-> st2, d |-> d2]
\* the walk from the first pixel on, the encoder writing to a vec as encode_to_vec does
lock_step_all(e, bytes) ==
    lock_step(e, bytes,
              impl_start(Sink("vec",
                              Overwrite([j \in 1..required_buf_len(e) |-> 0], 0,
                                        header_encode(e.header)),
                              Unlimited, 0, NoResult)),
              decode_start)

\* C17: a decoder run on the encoder's output has, after each pixel it produces, the
\* previous pixel and the 64-slot index table the encoder has after that pixel, both
\* starting from {0,0,0,255} and an all-zero table.
LockStep ==
    /\ decode_start.prev = as_rgba(4, impl_start(CurSink).px_prev, 255)
    /\ decode_start.index = impl_start(CurSink).index
    /\ (Encoded /\ sink = "vec") =>
          LET w == lock_step_all(enc, buf)
          IN  /\ w.ok
              /\ w.st.px_prev = px_prev /\ w.st.index = index
              /\ w.st.sink.written + QOI_PADDING_SIZE = written
\* the same for the encoders whose loop visits every pixel of the header
LockStepFullRows ==
    (Encoded /\ sink = "vec" /\ n_visited(enc) = n_pixels(enc.header)) =>
        LET w == lock_step_all(enc, buf)
        IN  /\ w.ok
            /\ w.st.px_prev = px_prev /\ w.st.index = index

\* C18: for a previous pixel p and a current pixel c # p, the opcode the encoder
\* writes for c, read by the decoder with previous pixel p, gives c, deltas taken
\* modulo 256; the opcode takes at most channels + 1 bytes.
OpcodeInvertible ==
    (pc = "loop" /\ sink = "vec" /\ ctor = "new" /\ i = 2
        /\ chunk_at(enc, 0) # chunk_at(enc, 1)) =>
        LET C == enc.header.channels
            d1 == decode_pixels(buf, C, decode_start, 1)
            d2 == decode_pixel(buf, C, d1)
        IN  /\ d1.err = NoResult /\ d2.err = NoResult
            /\ SubSeq(d1.prev, 1, C) = chunk_at(enc, 0)
            /\ SubSeq(d2.prev, 1, C) = chunk_at(enc, 1)
            /\ d2.prev = as_rgba(C, px, 255)
            /\ d2.pos = QOI_HEADER_SIZE + written
            /\ d2.pos - d1.pos >= 1 /\ d2.pos - d1.pos <= C + 1
\* 255 -> 0 in every channel has been written as a one-byte OP_DIFF and read back
OpcodeInvertibleWitness ==
    /\ pc = "loop" /\ sink = "vec" /\ ctor = "new" /\ i = 2
    /\ chunk_at(enc, 0) = <<255, 255, 255>>
    /\ chunk_at(enc, 1) = <<0, 0, 0>>
    /\ buf[QOI_HEADER_SIZE + written] = QOI_OP_DIFF + 63
    /\ decode_pixels(buf, 3, decode_start, 2).prev = <<0, 0, 0, 255>>
\* a 4-channel pair with equal alphas and far-apart colours has taken the 5 bytes of
\* OP_RGBA
OpcodeFiveBytesWitness ==
    /\ pc = "loop" /\ sink = "vec" /\ ctor = "new" /\ i = 2
    /\ enc.header.channels = 4
    /\ chunk_at(enc, 0)[4] = chunk_at(enc, 1)[4]
    /\ buf[QOI_HEADER_SIZE + written - 4] = QOI_OP_RGBA
    /\ decode_pixels(buf, 4, decode_start, 2).pos = QOI_HEADER_SIZE + written

\* whether one of the opcodes of bytes[pos+1 .. end] starts with the byte op
RECURSIVE has_op(_, _, _, _)
has_op(bytes, pos, end, op) ==
    IF pos >= end THEN FALSE
    ELSE bytes[pos + 1] = op \/ has_op(bytes, pos + op_len(bytes[pos + 1]), end, op)
\* the layouts without alpha
AlphaLess == { rc \in RawChannels : channels_of(rc) = 3 }
\* in encode_impl: alpha is 0xFF, no OP_RGBA has been written, and what has been
\* written leaves room for the padding within encode_max_len(w, h, 3)
AlphaStaysFF ==
    /\ px[4] = 255 /\ px_prev[4] = 255
    /\ Wrap(px[4] - px_prev[4] + 256) = 0
AlphaFixedHere ==
    /\ AlphaStaysFF
    /\ ~has_op(buf, QOI_HEADER_SIZE, QOI_HEADER_SIZE + written, QOI_OP_RGBA)
    /\ QOI_HEADER_SIZE + written + QOI_PADDING_SIZE
           <= encode_max_len(enc.header.width, enc.header.height, 3)

\* C19: for the layouts without alpha (Rgb, Bgr, Rgbx, Xrgb, Bgrx, Xbgr) the alpha of
\* the pixel and of the previous pixel is 0xFF in every state of encode_impl, so the
\* alpha delta is 0, no OP_RGBA is written, the output stays within
\* encode_max_len(w, h, 3), and no write fails for lack of room.
AlphaFixed ==
    (enc.raw_channels \in AlphaLess /\ sink \in {"buf", "vec"}) =>
        /\ pc = "loop" => AlphaFixedHere
        /\ (pc = "done" /\ result.kind = "Err") => written = 0 /\ px = Pixel_new
\* the same for the layouts that go through encode_impl::<_, 3, R>
AlphaFixedButXbgr ==
    (enc.raw_channels \in AlphaLess \ {"Xbgr"} /\ sink \in {"buf", "vec"}) =>
        /\ pc = "loop" => AlphaFixedHere
        /\ (pc = "done" /\ result.kind = "Err") => written = 0 /\ px = Pixel_new
\* the alphas alone, Xbgr included
AlphaFixedAlphas ==
    (enc.raw_channels \in AlphaLess /\ pc = "loop") => AlphaStaysFF

====
